---- MODULE Spec2Model ----
(***************************************************************************)
(* Motion-triggered clip pipeline of VISITWISE (src/main.py, and the       *)
(* earlier draft src/record.py, which shares main() and differs in         *)
(* upload_video).  The detection loop runs in the main thread; every       *)
(* trigger spawns one thread running handle_motion for one clip.           *)
(* Time is the wall clock in seconds, observed every VIDEO_DURATION         *)
(* seconds (VIDEO_DURATION = COOLDOWN_PERIOD, so every deadline of the     *)
(* code falls on an observed instant).  time.sleep(d) returns no earlier   *)
(* than d seconds after the call; nothing in the code bounds how late a    *)
(* thread is scheduled.  The sleeps of at most one second that only pace   *)
(* a loop carry no state and are not modelled.                             *)
(* The Wi-Fi provisioning service (src/blu_wifi_connector.py) is a process *)
(* of its own; one call of its write handler is explored under ProvSpec.   *)
(***************************************************************************)
EXTENDS Integers, Sequences, FiniteSets, TLC

\* ---- program constants ------------------------------------------------
VIDEO_DURATION == 5
COOLDOWN_PERIOD == 5
MOTION_THRESHOLD == 40
MIN_MOTION_AREA == 500
\* VIDEO_RESOLUTION = (1280, 1080)
FRAME_WIDTH == 1280
FRAME_HEIGHT == 1080
\* retry_count = 3
RETRY_COUNT == 3
\* response.status_code == 200
HTTP_OK == 200

\* ---- bounds of the model ------------------------------------------------
\* threads the detection loop may spawn in one run
MaxClips == 2
\* seconds of wall-clock time explored after process start
MaxElapsed == 15
\* raw files are 0..MaxRawSize bytes long (0: nothing was encoded)
MaxRawSize == 1
\* the status the collector answers with when it does not answer 200
OtherStatus == 500

\* ---- parameters the specification names and the code does not define ----
\* retention window and janitor period (seconds)
TTL == 5
CLEANUP_INTERVAL == 5
\* idle ceiling and period of the idle check (seconds)
MAX_IDLE_SECONDS == 5
IDLE_CHECK_INTERVAL == 5
\* minimum byte size of a plausible raw file, and the corrupt-count threshold
MIN_RAW_SIZE == 1
CORRUPT_LIMIT == 2
\* period of the heartbeat (seconds), and the heartbeat message of sd_notify
HEARTBEAT_INTERVAL == 5
Heartbeat == "WATCHDOG=1"

\* time.time() at process start: any value not below VIDEO_DURATION + COOLDOWN_PERIOD
StartTime == VIDEO_DURATION + COOLDOWN_PERIOD
MaxTime == StartTime + MaxElapsed
\* seconds between two observations of the clock
Step == VIDEO_DURATION

\* Python's None: as a frame or a path (the empty tuple), as a return value
NoFrame == <<>>
NoPath == <<>>
None == "None"
Scripts == {"main.py", "record.py"}
\* grey level of a (uniform) frame
Frames == {0, MOTION_THRESHOLD + 1}
StatusCodes == {HTTP_OK, OtherStatus}
RawSizes == 0 .. MaxRawSize

VARIABLES
    script,           \* which of the two scripts is the running process
    mainPc,           \* position of main(): "startup", "loop", "spawned", "exited"
    camera,           \* picam2: "none", "started", "closed"
    prev_frame,       \* main(): prev_frame
    gray,             \* main(): gray, the frame captured by the current iteration
    last_motion_time, \* main(): last_motion_time
    is_recording,     \* main(): is_recording
    now,              \* wall clock, seconds
    clips,            \* the handle_motion threads, in spawn order
    files,            \* OUTPUT_DIR: path -> modification time
    last_success,     \* when ffmpeg last returned 0 (process start before that)
    reboots,          \* OS restarts the process has invoked
    exit_cause,       \* why main() ended: "none" while it runs
    notifications,    \* what was sent through notifier, in order
    \* blu_wifi_connector.py, the provisioning service (a process of its own)
    data,             \* write_value: the payload written to the characteristic
    wpc,              \* position of write_value; "off": the service is not run
    ssid,             \* write_value: ssid
    password,         \* write_value: password
    connections,      \* names of the NetworkManager connections
    todo,             \* write_value: connections the for loop has yet to visit
    credentials_file, \* CREDENTIALS_FILE
    connect_result    \* connect_to_wifi: "none" before a call, then "ok" or "failed"

provVars == <<data, wpc, ssid, password, connections, todo, credentials_file,
              connect_result>>

vars == <<script, mainPc, camera, prev_frame, gray, last_motion_time,
          is_recording, now, clips, files, last_success, reboots, exit_cause, notifications, provVars>>

mainVars == <<mainPc, camera, prev_frame, gray, last_motion_time, is_recording>>

\* ---- paths and the directory -------------------------------------------
\* os.path.join(OUTPUT_DIR, f"motion_{timestamp}.h264")
H264Path(timestamp) == <<timestamp, "h264">>

\* video_path.replace('.h264', '.mp4')
Mp4Of(video_path) == <<video_path[1], "mp4">>

\* video_path.replace('.mp4', '.h264')
H264Of(video_path) == <<video_path[1], "h264">>

\* os.path.exists
Exists(path) == path \in DOMAIN files

\* a file is created or rewritten at the current time
WriteFile(fs, path) == [p \in (DOMAIN fs) \cup {path} |-> IF p = path THEN now ELSE fs[p]]

\* rm -f / os.remove
RemoveFile(fs, path) == [p \in (DOMAIN fs) \ {path} |-> fs[p]]

\* ---- motion detection (main.py 155-166) ---------------------------------
Abs(x) == IF x < 0 THEN -x ELSE x

\* cv2.absdiff, cv2.threshold(..., THRESH_BINARY): a pixel is set when its
\* difference is above the threshold; frames are uniform, so the thresholded
\* image is all set or all clear, and has one contour or none
ContourAreas(prev, cur) ==
    IF Abs(prev - cur) > MOTION_THRESHOLD THEN {FRAME_WIDTH * FRAME_HEIGHT} ELSE {}

\* the loop over the contours
MotionDetected(prev, cur) == \E area \in ContourAreas(prev, cur) : area > MIN_MOTION_AREA

\* a guard that tests the flag only
CoolingDownFlagOnly(current_time) == is_recording

\* a guard that waits for the recording and not for the cooldown
CoolingDownVideoOnly(current_time) ==
    is_recording \/ (current_time - last_motion_time) < VIDEO_DURATION

\* the guard of the second `continue`
CoolingDown(current_time) ==
    is_recording \/ (current_time - last_motion_time) < (VIDEO_DURATION + COOLDOWN_PERIOD)

\* ---- a handle_motion thread ------------------------------------------------
\* the state of the thread started for video_path
NewClip(video_path) ==
    [ video_path   |-> video_path,
      pc           |-> "spawned",   \* spawned, recording, stopped, upload, deleting, done
      wake         |-> 0,           \* when time.sleep(VIDEO_DURATION) may return
      rawSize      |-> 0,           \* bytes of the raw file when the encoder stopped
      converter    |-> "none",      \* ffmpeg: none, ok, failed, raised
      mp4_path     |-> NoPath,      \* what record_and_convert returned
      posts        |-> 0,           \* POST requests issued
      status       |-> 0,           \* response.status_code, 0 before a response
      file_idx     |-> 0,           \* which file the delete loop is at
      retry_count  |-> 0,
      delete_failed|-> <<FALSE, FALSE>>, \* a delete failure was printed, per file
      result       |-> None ]       \* what upload_video returned

\* [video_path, video_path.replace('.mp4', '.h264')] as upload_video sees them
DeleteList(c) == <<Mp4Of(c.video_path), H264Of(c.video_path)>>

\* ---- main(): start-up and the detection loop ---------------------------
PipelineInit ==
    /\ script \in Scripts
    /\ mainPc = "startup"
    /\ camera = "none"
    /\ prev_frame = NoFrame
    /\ gray = NoFrame
    /\ last_motion_time = 0
    /\ is_recording = FALSE
    /\ now = StartTime
    /\ clips = <<>>
    /\ files = <<>>
    /\ last_success = StartTime
    /\ reboots = 0
    /\ exit_cause = "none"
    /\ notifications = <<>>

\* no file: what CREDENTIALS_FILE is before the first save
NoCredentials == [written |-> FALSE, complete |-> FALSE, ssid |-> <<>>, password |-> <<>>]

\* the pipeline is started; the provisioning service is not looked at
Init ==
    /\ PipelineInit
    /\ data = <<>> /\ wpc = "off" /\ ssid = <<>> /\ password = <<>>
    /\ connections = {} /\ todo = {}
    /\ credentials_file = NoCredentials
    /\ connect_result = "none"

\* an ensure_output_directory() whose result main() does not act on
StartupUnchecked(writable, device) ==
    /\ mainPc = "startup"
    /\ IF device
         THEN mainPc' = "loop" /\ camera' = "started"
              /\ exit_cause' = IF writable THEN exit_cause ELSE "directory"
         ELSE mainPc' = "exited" /\ camera' = camera /\ exit_cause' = "device"
    /\ UNCHANGED <<script, prev_frame, gray, last_motion_time, is_recording,
                   now, clips, files, last_success, reboots, notifications, provVars>>

\* ensure_output_directory(), then Picamera2() and the calls up to
\* picam2.start(). main() returns when the directory is not writable; an
\* exception of the camera calls (no capture device) is outside the try and
\* ends main() with the camera not started.
Startup(writable, device) ==
    /\ mainPc = "startup"
    /\ IF ~writable
         THEN mainPc' = "exited" /\ camera' = camera /\ exit_cause' = "directory"
         ELSE IF ~device
           THEN mainPc' = "exited" /\ camera' = camera /\ exit_cause' = "device"
           ELSE mainPc' = "loop" /\ camera' = "started" /\ exit_cause' = exit_cause
    /\ UNCHANGED <<script, prev_frame, gray, last_motion_time, is_recording,
                   now, clips, files, last_success, reboots, notifications, provVars>>

\* a first iteration that compares the frame with an all-zero previous frame
SeedFrameDetects(frame) ==
    /\ mainPc = "loop"
    /\ prev_frame = NoFrame
    /\ gray' = <<frame>>
    /\ prev_frame' = <<frame>>
    /\ IF MotionDetected(0, frame) /\ Len(clips) < MaxClips
         THEN /\ is_recording' = TRUE
              /\ last_motion_time' = now
              /\ clips' = Append(clips, NewClip(H264Path(now)))
              /\ mainPc' = "spawned"
         ELSE UNCHANGED <<is_recording, last_motion_time, clips, mainPc>>
    /\ UNCHANGED <<script, camera, now, files, last_success, reboots,
                   exit_cause, notifications, provVars>>

\* first iteration: prev_frame is None
SeedFrame(frame) ==
    /\ mainPc = "loop"
    /\ prev_frame = NoFrame
    /\ gray' = <<frame>>
    /\ prev_frame' = <<frame>>
    /\ UNCHANGED <<script, mainPc, camera, last_motion_time, is_recording,
                   now, clips, files, last_success, reboots, exit_cause, notifications, provVars>>

\* an iteration that ends at the second `continue`
SkipIteration(frame) ==
    /\ mainPc = "loop"
    /\ prev_frame # NoFrame
    /\ CoolingDown(now)
    /\ gray' = <<frame>>
    /\ UNCHANGED <<script, mainPc, camera, prev_frame, last_motion_time,
                   is_recording, now, clips, files, last_success, reboots, exit_cause, notifications, provVars>>

\* an iteration that runs the detection and finds no motion
QuietIteration(frame) ==
    /\ mainPc = "loop"
    /\ prev_frame # NoFrame
    /\ ~CoolingDown(now)
    /\ ~(MotionDetected(prev_frame[1], frame) /\ ~is_recording)
    /\ gray' = <<frame>>
    /\ prev_frame' = <<frame>>
    /\ UNCHANGED <<script, mainPc, camera, last_motion_time, is_recording,
                   now, clips, files, last_success, reboots, exit_cause, notifications, provVars>>

\* an iteration that finds motion: up to and including Thread(...).start()
TriggerIteration(frame) ==
    /\ mainPc = "loop"
    /\ prev_frame # NoFrame
    /\ ~CoolingDown(now)
    /\ MotionDetected(prev_frame[1], frame) /\ ~is_recording
    /\ Len(clips) < MaxClips
    /\ gray' = <<frame>>
    /\ prev_frame' = <<frame>>
    /\ is_recording' = TRUE
    /\ last_motion_time' = now
    /\ clips' = Append(clips, NewClip(H264Path(now)))
    /\ mainPc' = "spawned"
    /\ UNCHANGED <<script, camera, now, files, last_success, reboots, exit_cause, notifications, provVars>>

\* time.sleep(0.1); is_recording = False
ResetRecording ==
    /\ mainPc = "spawned"
    /\ is_recording' = FALSE
    /\ mainPc' = "loop"
    /\ UNCHANGED <<script, camera, prev_frame, gray, last_motion_time,
                   now, clips, files, last_success, reboots, exit_cause, notifications, provVars>>

\* a finally block that leaves the camera as it is
FinallyMissing == camera' = camera

\* the finally block: picam2.stop(); picam2.close()
Finally == camera' = "closed"

\* KeyboardInterrupt in the loop: caught, then the finally block and the end of
\* main(). The threads are not daemon threads: they run on.
Interrupt ==
    /\ mainPc \in {"loop", "spawned"}
    /\ mainPc' = "exited"
    /\ exit_cause' = "interrupt"
    /\ Finally
    /\ UNCHANGED <<script, prev_frame, gray, last_motion_time, is_recording,
                   now, clips, files, last_success, reboots, notifications, provVars>>

\* picam2.capture_array() or cv2.cvtColor raises: no except clause matches, the
\* finally block runs and the exception ends main()
CaptureFails ==
    /\ mainPc = "loop"
    /\ mainPc' = "exited"
    /\ exit_cause' = "capture"
    /\ Finally
    /\ UNCHANGED <<script, prev_frame, gray, last_motion_time, is_recording,
                   now, clips, files, last_success, reboots, notifications, provVars>>

\* the wall clock
Tick ==
    /\ now + Step <= MaxTime
    /\ now' = now + Step
    /\ UNCHANGED <<script, mainPc, camera, prev_frame, gray, last_motion_time,
                   is_recording, clips, files, last_success, reboots, exit_cause, notifications, provVars>>

\* ---- record_and_convert ---------------------------------------------------
SetClip(i, c) == clips' = [clips EXCEPT ![i] = c]

\* the except branch of record_and_convert: print, return None
RecordError(c) == [c EXCEPT !.pc = "done", !.mp4_path = NoPath]

\* a handle_motion that calls upload_video whatever record_and_convert returned
AlwaysUpload(c) == [c EXCEPT !.pc = "upload"]

\* handle_motion: upload_video is called when record_and_convert returned a path
AfterRecordAndConvert(c) ==
    IF c.mp4_path # NoPath THEN [c EXCEPT !.pc = "upload"] ELSE [c EXCEPT !.pc = "done"]

\* the steps of a thread that failed: record_and_convert ended in None,
\* upload_video returned False, a delete failure was printed for a file
FailureMarks(c) ==
    {m \in {"record", "upload", "delete1", "delete2"} :
        \/ m = "record" /\ c.pc = "done" /\ c.mp4_path = NoPath
        \/ m = "upload" /\ c.result = "False"
        \/ m = "delete1" /\ c.delete_failed[1]
        \/ m = "delete2" /\ c.delete_failed[2]}

\* a worker that kept the flag set when its step failed
MainStuckOnFailure(i) ==
    /\ is_recording' = (is_recording \/ FailureMarks(clips'[i]) # FailureMarks(clips[i]))
    /\ UNCHANGED <<mainPc, camera, prev_frame, gray, last_motion_time>>

\* handle_motion and the functions it calls assign none of main()'s locals
MainUntouched(i) == UNCHANGED mainVars

\* FileOutput(video_path); picam2.start_encoder(encoder, output).
\* FileOutput opens (creates) the file; either call may raise.
StartEncoder(i, outcome) ==
    LET c == clips[i] IN
    /\ c.pc = "spawned"
    /\ CASE outcome = "ok" ->
              /\ files' = WriteFile(files, c.video_path)
              /\ SetClip(i, [c EXCEPT !.pc = "recording", !.wake = now + VIDEO_DURATION])
         [] outcome = "encoder_error" ->
              /\ files' = WriteFile(files, c.video_path)
              /\ SetClip(i, RecordError(c))
         [] outcome = "output_error" ->
              /\ files' = files
              /\ SetClip(i, RecordError(c))
    /\ MainUntouched(i)
    /\ UNCHANGED <<script, now, last_success, reboots, exit_cause, notifications, provVars>>

\* time.sleep(VIDEO_DURATION) has returned; picam2.stop_encoder(); output.close().
\* The raw file then holds `size` bytes.
StopEncoder(i, size, ok) ==
    LET c == clips[i] IN
    /\ c.pc = "recording"
    /\ now >= c.wake
    /\ files' = WriteFile(files, c.video_path)
    /\ IF ok
         THEN SetClip(i, [c EXCEPT !.pc = "stopped", !.wake = 0, !.rawSize = size])
         ELSE SetClip(i, RecordError([c EXCEPT !.wake = 0, !.rawSize = size]))
    /\ MainUntouched(i)
    /\ UNCHANGED <<script, now, last_success, reboots, exit_cause, notifications, provVars>>

\* subprocess.run(ffmpeg ...): returns 0, returns non-zero, or raises; ffmpeg
\* cannot produce a clip from an empty input
Convert(i, outcome) ==
    LET c == clips[i] IN
    /\ c.pc = "stopped"
    /\ c.rawSize = 0 => outcome # "ok"
    /\ CASE outcome = "ok" ->
              /\ files' = WriteFile(files, Mp4Of(c.video_path))
              /\ SetClip(i, AfterRecordAndConvert(
                               [c EXCEPT !.converter = "ok", !.mp4_path = Mp4Of(c.video_path)]))
         [] outcome = "failed" ->
              /\ files' = files
              /\ SetClip(i, AfterRecordAndConvert(
                               [c EXCEPT !.converter = "failed", !.mp4_path = NoPath]))
         [] outcome = "raised" ->
              /\ files' = files
              /\ SetClip(i, AfterRecordAndConvert(RecordError([c EXCEPT !.converter = "raised"])))
    /\ last_success' = IF outcome = "ok" THEN now ELSE last_success
    /\ MainUntouched(i)
    /\ UNCHANGED <<script, now, reboots, exit_cause, notifications, provVars>>

\* ---- upload_video ---------------------------------------------------------
\* a failed upload that puts the clip back where upload_video is called
UploadFailedRequeued(c) ==
    [c EXCEPT !.pc = "upload", !.result = "False", !.file_idx = 0, !.retry_count = 0]

\* `return False` of the except branches and of record.py's else branch; the
\* thread ends with it
UploadFailed(c) ==
    [c EXCEPT !.pc = "done", !.result = "False", !.file_idx = 0, !.retry_count = 0]

\* `return True`
UploadReturnsTrue(c) ==
    [c EXCEPT !.pc = "done", !.result = "True", !.file_idx = 0, !.retry_count = 0]

\* main.py: what follows the response. The test of status_code guards the print
\* and the sleep only; the for loop over the two files is outside it.
MainOnResponse(c) ==
    [c EXCEPT !.pc = "deleting", !.file_idx = 1, !.retry_count = RETRY_COUNT]

\* record.py: what follows the response
RecordOnResponse(c) ==
    IF c.status = HTTP_OK
      THEN [c EXCEPT !.pc = "deleting", !.file_idx = 1]
      ELSE UploadFailed(c)

\* requests.post(...) returns a response with status_code = status
PostResponse(i, status) ==
    LET c == clips[i]
        r == [c EXCEPT !.posts = c.posts + 1, !.status = status] IN
    /\ c.pc = "upload"
    /\ Exists(c.mp4_path)
    /\ SetClip(i, IF script = "main.py" THEN MainOnResponse(r) ELSE RecordOnResponse(r))
    /\ MainUntouched(i)
    /\ UNCHANGED <<script, now, files, last_success, reboots, exit_cause, notifications, provVars>>

\* open(video_path, 'rb') raises (posted = FALSE), or requests.post(...) raises
\* RequestException on a transport error or a timeout (posted = TRUE): both
\* are caught and upload_video returns False
UploadRaises(i, posted) ==
    LET c == clips[i] IN
    /\ c.pc = "upload"
    /\ ~posted \/ Exists(c.mp4_path)
    /\ SetClip(i, UploadFailed([c EXCEPT !.posts = IF posted THEN c.posts + 1 ELSE c.posts]))
    /\ MainUntouched(i)
    /\ UNCHANGED <<script, now, files, last_success, reboots, exit_cause, notifications, provVars>>

\* main.py: the statements after the while loop, then the next file of the for
\* loop or `return True`
MainAfterWhile(c) ==
    LET d == IF c.retry_count = 0
               THEN [c EXCEPT !.delete_failed[c.file_idx] = TRUE]
               ELSE c IN
    IF c.file_idx < Len(DeleteList(c))
      THEN [d EXCEPT !.file_idx = c.file_idx + 1, !.retry_count = RETRY_COUNT]
      ELSE UploadReturnsTrue(d)

\* main.py: one pass of `while retry_count > 0`. The file is missing (break),
\* chmod and rm succeed (break), or one of them raises (retry_count -= 1).
MainDeleteStep(i, ok) ==
    LET c == clips[i]
        path == DeleteList(c)[c.file_idx] IN
    /\ script = "main.py"
    /\ c.pc = "deleting"
    /\ IF ~Exists(path)
         THEN /\ files' = files
              /\ SetClip(i, MainAfterWhile(c))
         ELSE IF ok
           THEN /\ files' = RemoveFile(files, path)
                /\ SetClip(i, MainAfterWhile(c))
           ELSE /\ files' = files
                /\ SetClip(i, IF c.retry_count - 1 > 0
                                THEN [c EXCEPT !.retry_count = c.retry_count - 1]
                                ELSE MainAfterWhile([c EXCEPT !.retry_count = 0]))
    /\ MainUntouched(i)
    /\ UNCHANGED <<script, now, last_success, reboots, exit_cause, notifications, provVars>>

\* record.py: the except branch of the deletion, then `return True`
RecordDeleteError(c) ==
    UploadReturnsTrue([c EXCEPT !.delete_failed[c.file_idx] = TRUE])

\* record.py: os.remove(video_path), then os.remove(h264_path) if it exists;
\* the first os.remove that raises ends the deletion
RecordDeleteStep(i, ok) ==
    LET c == clips[i]
        path == DeleteList(c)[c.file_idx] IN
    /\ script = "record.py"
    /\ c.pc = "deleting"
    /\ IF c.file_idx = 1
         THEN IF Exists(path) /\ ok
                THEN /\ files' = RemoveFile(files, path)
                     /\ SetClip(i, [c EXCEPT !.file_idx = 2])
                ELSE /\ files' = files
                     /\ SetClip(i, RecordDeleteError(c))
         ELSE IF ~Exists(path)
                THEN /\ files' = files
                     /\ SetClip(i, UploadReturnsTrue(c))
                ELSE IF ok
                  THEN /\ files' = RemoveFile(files, path)
                       /\ SetClip(i, UploadReturnsTrue(c))
                  ELSE /\ files' = files
                       /\ SetClip(i, RecordDeleteError(c))
    /\ MainUntouched(i)
    /\ UNCHANGED <<script, now, last_success, reboots, exit_cause, notifications, provVars>>

\* another process removes a file of the clip directory just before
\* upload_video comes to delete it: the case the os.path.exists tests of
\* upload_video provide for. Removals at other times are not explored.
ExternalRemove(path) ==
    /\ Exists(path)
    /\ \E i \in 1 .. Len(clips) :
          clips[i].pc = "deleting" /\ path = DeleteList(clips[i])[clips[i].file_idx]
    /\ files' = RemoveFile(files, path)
    /\ UNCHANGED <<script, mainPc, camera, prev_frame, gray, last_motion_time,
                   is_recording, now, clips, last_success, reboots,
                   exit_cause, notifications, provVars>>

\* ---- the specification ------------------------------------------------------
Threads == 1 .. Len(clips)
StartOutcomes == {"ok", "encoder_error", "output_error"}
ConvertOutcomes == {"ok", "failed", "raised"}

Next ==
    \/ \E writable \in BOOLEAN, device \in BOOLEAN : Startup(writable, device)
    \/ \E frame \in Frames : SeedFrame(frame)
    \/ \E frame \in Frames : SkipIteration(frame)
    \/ \E frame \in Frames : QuietIteration(frame)
    \/ \E frame \in Frames : TriggerIteration(frame)
    \/ ResetRecording
    \/ Interrupt
    \/ CaptureFails
    \/ \E i \in Threads, outcome \in StartOutcomes : StartEncoder(i, outcome)
    \/ \E i \in Threads, size \in RawSizes, ok \in BOOLEAN : StopEncoder(i, size, ok)
    \/ \E i \in Threads, outcome \in ConvertOutcomes : Convert(i, outcome)
    \/ \E i \in Threads, status \in StatusCodes : PostResponse(i, status)
    \/ \E i \in Threads, posted \in BOOLEAN : UploadRaises(i, posted)
    \/ \E i \in Threads, ok \in BOOLEAN : MainDeleteStep(i, ok)
    \/ \E i \in Threads, ok \in BOOLEAN : RecordDeleteStep(i, ok)
    \/ \E path \in DOMAIN files : ExternalRemove(path)
    \/ Tick

Spec == Init /\ [][Next]_vars

\* the steps of upload_video in the thread of clip i
UploadStep(i) ==
    \/ \E status \in StatusCodes : PostResponse(i, status)
    \/ \E posted \in BOOLEAN : UploadRaises(i, posted)
    \/ \E ok \in BOOLEAN : MainDeleteStep(i, ok)
    \/ \E ok \in BOOLEAN : RecordDeleteStep(i, ok)

\* a started thread that can run is eventually run: requests.post is given
\* timeout=UPLOAD_TIMEOUT, and rm and os.remove return
FairSpec == Spec /\ \A i \in 1 .. MaxClips : WF_vars(i \in Threads /\ UploadStep(i))

\* ---- blu_wifi_connector.py: write_value -----------------------------------------
\* characters of a payload: a letter, the character of the separator, a blank
Chars == {"a", "+", " "}
\* payloads are at most MaxPayloadLen characters long
MaxPayloadLen == 5
Payloads == UNION {[1 .. n -> Chars] : n \in 0 .. MaxPayloadLen}
\* names NetworkManager may hold a connection under
ConnNames == {<<"a">>, <<"h">>}
\* '++++'
Separator == <<"+", "+", "+", "+">>
\* a credentials file save_credentials wrote earlier
OldCredentials == [written |-> TRUE, complete |-> TRUE, ssid |-> <<"h">>, password |-> <<"a">>]

pipelineVars == <<script, mainPc, camera, prev_frame, gray, last_motion_time,
                  is_recording, now, clips, files, last_success, reboots,
                  exit_cause, notifications>>

\* str.strip(): leading and trailing blanks removed
RECURSIVE LStrip(_)
LStrip(s) == IF s # <<>> /\ Head(s) = " " THEN LStrip(Tail(s)) ELSE s

RECURSIVE RStrip(_)
RStrip(s) == IF s # <<>> /\ s[Len(s)] = " " THEN RStrip(SubSeq(s, 1, Len(s) - 1)) ELSE s

Strip(s) == RStrip(LStrip(s))

\* str.find from position i: the first index at or after i where sep starts, 0 if none
RECURSIVE FindFrom(_, _, _)
FindFrom(s, sep, i) ==
    IF i + Len(sep) - 1 > Len(s) THEN 0
    ELSE IF SubSeq(s, i, i + Len(sep) - 1) = sep THEN i
    ELSE FindFrom(s, sep, i + 1)

\* '++++' in credentials
WellFormed(credentials) == FindFrom(credentials, Separator, 1) # 0

\* credentials.split('++++', 1)
Split1(credentials) ==
    LET i == FindFrom(credentials, Separator, 1) IN
    <<SubSeq(credentials, 1, i - 1),
      SubSeq(credentials, i + Len(Separator), Len(credentials))>>

\* a write to the characteristic arrives: any payload, any connections, with or
\* without an earlier credentials file
ProvInit ==
    /\ PipelineInit
    /\ data \in Payloads
    /\ wpc = "received"
    /\ ssid = <<>> /\ password = <<>>
    /\ connections \in SUBSET ConnNames
    /\ todo = {}
    /\ credentials_file \in {NoCredentials, OldCredentials}
    /\ connect_result = "none"

\* the payload is decoded and stripped; without the separator write_value
\* returns, with it the payload is split at the first separator
ParseCredentials ==
    LET credentials == Strip(data) IN
    /\ wpc = "received"
    /\ IF ~WellFormed(credentials)
         THEN wpc' = "returned" /\ UNCHANGED <<ssid, password>>
         ELSE /\ ssid' = Split1(credentials)[1]
              /\ password' = Split1(credentials)[2]
              /\ wpc' = "listing"
    /\ UNCHANGED <<data, connections, todo, credentials_file, connect_result, pipelineVars>>

\* nmcli connection show: the names, or an error that ends write_value
ListConnections(ok) ==
    /\ wpc = "listing"
    /\ IF ok THEN wpc' = "deleting" /\ todo' = connections
             ELSE wpc' = "returned" /\ todo' = todo
    /\ UNCHANGED <<data, ssid, password, connections, credentials_file, connect_result,
                   pipelineVars>>

\* one pass of the for loop: the connection named as the ssid is kept, any other
\* is deleted; a failing nmcli connection delete ends write_value
DeleteConnection(conn, ok) ==
    /\ wpc = "deleting"
    /\ conn \in todo
    /\ IF conn = ssid
         THEN todo' = todo \ {conn} /\ UNCHANGED <<wpc, connections>>
         ELSE IF ok
           THEN /\ connections' = connections \ {conn}
                /\ todo' = todo \ {conn}
                /\ wpc' = wpc
           ELSE wpc' = "returned" /\ UNCHANGED <<todo, connections>>
    /\ UNCHANGED <<data, ssid, password, credentials_file, connect_result, pipelineVars>>

\* a write_value that saves the credentials whatever connect_to_wifi returned
AfterConnectAlwaysSave(ok) == "saving"

\* if connect_to_wifi(ssid, password): save_credentials(ssid, password)
AfterConnect(ok) == IF ok THEN "saving" ELSE "status"

\* the for loop is over; connect_to_wifi(ssid, password) returns True (nmcli
\* connected, and holds a connection named as the ssid) or False
ConnectToWifi(ok) ==
    /\ wpc = "deleting"
    /\ todo = {}
    /\ connect_result' = IF ok THEN "ok" ELSE "failed"
    /\ connections' = IF ok THEN connections \cup {ssid} ELSE connections
    /\ wpc' = AfterConnect(ok)
    /\ UNCHANGED <<data, ssid, password, todo, credentials_file, pipelineVars>>

SaveOutcomes == {"ok", "open_error", "write_error"}

\* save_credentials: open(CREDENTIALS_FILE, 'w') may raise (the file is left as
\* it was); once opened the file is truncated, and json.dump completes or raises
SaveCredentials(outcome) ==
    /\ wpc = "saving"
    /\ credentials_file' =
         CASE outcome = "ok" ->
                [written |-> TRUE, complete |-> TRUE, ssid |-> ssid, password |-> password]
           [] outcome = "open_error" -> credentials_file
           [] outcome = "write_error" ->
                [written |-> TRUE, complete |-> FALSE, ssid |-> <<>>, password |-> <<>>]
    /\ wpc' = "status"
    /\ UNCHANGED <<data, ssid, password, connections, todo, connect_result, pipelineVars>>

\* characteristic.set_value(read_value()), and the end of write_value
UpdateStatus ==
    /\ wpc = "status"
    /\ wpc' = "returned"
    /\ UNCHANGED <<data, ssid, password, connections, todo, credentials_file,
                   connect_result, pipelineVars>>

ProvNext ==
    \/ ParseCredentials
    \/ \E ok \in BOOLEAN : ListConnections(ok)
    \/ \E conn \in ConnNames, ok \in BOOLEAN : DeleteConnection(conn, ok)
    \/ \E ok \in BOOLEAN : ConnectToWifi(ok)
    \/ \E outcome \in SaveOutcomes : SaveCredentials(outcome)
    \/ UpdateStatus

\* one call of write_value, from any state of the connections and of the file
ProvSpec == ProvInit /\ [][ProvNext]_vars

\* ---- observations used by the properties ---------------------------------
\* stop_encoder has returned for the clip
Recorded(c) == c.pc = "stopped" \/ c.converter # "none"

\* the clip is between start_encoder and stop_encoder
Recording == {i \in Threads : clips[i].pc = "recording"}

\* the clip's raw file is below the minimum byte size
Corrupt(c) == Recorded(c) /\ c.rawSize < MIN_RAW_SIZE

\* corrupt recordings since the last successful conversion
CorruptCount ==
    Cardinality({i \in Threads :
        /\ Corrupt(clips[i])
        /\ \A j \in Threads : j > i => clips[j].converter # "ok"})

\* seconds since the last successful recording and conversion
IdleFor == now - last_success

\* ---- properties ---------------------------------------------------------------

\* C1: at most one recording (a clip between start_encoder and stop_encoder)
\* is active at any time, and the detection loop starts a handle_motion thread
\* only when no recording is active.
C1_SingleFlight ==
    /\ [](Cardinality(Recording) <= 1)
    /\ [][Len(clips') > Len(clips) => Recording = {}]_vars

\* C2: when the POST returned a status other than 200, upload_video leaves both
\* the converted file and the raw file of the clip on disk.
C2_FailedUploadKeepsFiles ==
    \A i \in Threads :
        (clips[i].status # 0 /\ clips[i].status # HTTP_OK)
            => (Exists(Mp4Of(clips[i].video_path)) /\ Exists(H264Of(clips[i].video_path)))

\* C3: upload_video returns True exactly when the POST returned 200; for any
\* other status, and when the request raised, it returns False.
C3_SuccessIffOk ==
    \A i \in Threads :
        clips[i].result # None => (clips[i].result = "True" <=> clips[i].status = HTTP_OK)

\* C4: at most one POST is issued for a clip, and a clip for which a POST was
\* issued is never back at the point where upload_video is called.
C4_AtMostOnePost ==
    \A i \in Threads :
        /\ clips[i].posts <= 1
        /\ clips[i].posts = 1 => clips[i].pc \in {"deleting", "done"}

\* C4 witness: a second clip exists and the upload of the first one failed after
\* its single POST.
C4_Witness ==
    /\ Len(clips) = 2
    /\ clips[1].pc = "done" /\ clips[1].result = "False" /\ clips[1].posts = 1
    /\ clips[2].pc = "upload"

\* C5: when upload_video has returned after a 200 response, each of the clip's
\* two files is absent, or its deletion was tried and a delete failure was
\* printed for it.
C5_CleanupOutcome ==
    \A i \in Threads :
        (clips[i].status = HTTP_OK /\ clips[i].pc = "done")
            => \A k \in 1 .. 2 :
                   ~Exists(DeleteList(clips[i])[k]) \/ clips[i].delete_failed[k]

\* Lemma for C5: main.py's delete loop gives the outcome C5 states, after any
\* response.
MainPyCleanupOutcome ==
    \A i \in Threads :
        (script = "main.py" /\ clips[i].status # 0 /\ clips[i].pc = "done")
            => \A k \in 1 .. 2 :
                   ~Exists(DeleteList(clips[i])[k]) \/ clips[i].delete_failed[k]

\* Lemma for C5: in both scripts upload_video returns once the response is there.
UploadTerminates ==
    \A i \in 1 .. MaxClips :
        (i \in Threads /\ clips[i].status # 0) ~> (i \in Threads /\ clips[i].pc = "done")

\* C6: no file of the clip directory is older than TTL + CLEANUP_INTERVAL.
C6_RetentionBound ==
    \A p \in DOMAIN files : now - files[p] <= TTL + CLEANUP_INTERVAL

\* C7: a recording whose raw file is below the minimum size is passed neither
\* to the converter nor to upload_video.
C7_CorruptNeverConverted ==
    \A i \in Threads :
        Corrupt(clips[i])
            => /\ clips[i].converter = "none"
               /\ clips[i].pc \notin {"upload", "deleting"}
               /\ clips[i].posts = 0 /\ clips[i].result = None

\* C8: the reboot is invoked at most once, and it is invoked as soon as the
\* corrupt count reaches its threshold or the idle check finds the ceiling
\* exceeded, whichever comes first.
C8_RebootOnce ==
    /\ reboots <= 1
    /\ (mainPc = "loop" /\ (CorruptCount >= CORRUPT_LIMIT
                               \/ IdleFor > MAX_IDLE_SECONDS + IDLE_CHECK_INTERVAL))
           => reboots = 1

\* C9: with no corrupt recording, once the last successful clip is older than
\* the idle ceiling by a period of the idle check, the reboot has been invoked.
C9_IdleEscalates ==
    (mainPc = "loop" /\ CorruptCount = 0
        /\ IdleFor > MAX_IDLE_SECONDS + IDLE_CHECK_INTERVAL)
        => reboots >= 1

\* C10: a step of a clip's thread that fails (record_and_convert ends in None,
\* upload_video returns False, a delete failure is printed) changes neither the
\* state of the detection loop nor the state of any other clip's thread.
C10_FailureIsLocal ==
    [][\A i \in Threads :
          FailureMarks(clips'[i]) # FailureMarks(clips[i])
              => /\ mainPc' = mainPc /\ camera' = camera
                 /\ is_recording' = is_recording
                 /\ last_motion_time' = last_motion_time
                 /\ prev_frame' = prev_frame
                 /\ \A j \in Threads : j # i => clips'[j] = clips[j]]_vars

\* C10 witness: the first clip failed, the detection loop is still running, and
\* the clip of a later motion event was recorded, converted, uploaded and
\* removed.
C10_Witness ==
    /\ Len(clips) = 2
    /\ FailureMarks(clips[1]) # {}
    /\ mainPc = "loop"
    /\ clips[2].pc = "done" /\ clips[2].result = "True" /\ clips[2].status = HTTP_OK
    /\ FailureMarks(clips[2]) = {}

\* C11: when ensure_output_directory() failed, main() has ended with the camera
\* never opened, and no frame was captured and no clip recorded, converted,
\* uploaded or written.
C11_AbortOnUnwritableDir ==
    exit_cause = "directory"
        => /\ mainPc = "exited" /\ camera = "none"
           /\ prev_frame = NoFrame /\ gray = NoFrame
           /\ clips = <<>> /\ files = <<>>

\* C11 witness: the directory was not writable and time has passed since.
C11_Witness ==
    exit_cause = "directory" /\ mainPc = "exited" /\ now > StartTime

\* the clips whose thread has not ended
InFlight == {i \in Threads : clips[i].pc # "done"}

C13_ShutdownAbandonsClip ==
    [][(mainPc = "exited" /\ exit_cause = "interrupt" /\ InFlight # {})
          => (clips' = clips /\ files' = files)]_vars

C15_HeartbeatSent ==
    (mainPc \in {"loop", "spawned"} /\ Len(clips) > 0
        /\ now - last_motion_time >= HEARTBEAT_INTERVAL)
        => \E k \in 1 .. Len(notifications) : notifications[k] = Heartbeat

\* an iteration of the detection loop: each begins with picam2.capture_array()
CaptureStep ==
    \E frame \in Frames :
        \/ SeedFrame(frame) \/ SkipIteration(frame)
        \/ QuietIteration(frame) \/ TriggerIteration(frame)

\* C16: the detection loop captures no frame while a clip is between
\* start_encoder and stop_encoder.
C16_ExclusiveCamera ==
    [][CaptureStep => Recording = {}]_vars

\* C17: after every iteration the previous frame is the frame that iteration
\* captured.
C17_PrevAlwaysAdvanced ==
    gray # NoFrame => prev_frame = gray

\* C18: the iteration that finds prev_frame unset stores the captured frame in
\* it and does nothing else: no thread is started, the flag and the time of the
\* last motion stay as they are; no clip exists while prev_frame is unset.
C18_FirstFrameSeedsOnly ==
    /\ [](prev_frame = NoFrame => clips = <<>>)
    /\ [][(mainPc = "loop" /\ prev_frame = NoFrame /\ prev_frame' # NoFrame)
            => /\ prev_frame' = gray'
               /\ clips' = clips
               /\ is_recording' = is_recording
               /\ last_motion_time' = last_motion_time
               /\ mainPc' = "loop"]_vars

\* C18 witness: the first frame differed from an all-zero frame by more than the
\* threshold, it was stored and nothing was triggered.
C18_Witness ==
    /\ mainPc = "loop"
    /\ prev_frame = <<MOTION_THRESHOLD + 1>> /\ gray = prev_frame
    /\ clips = <<>> /\ ~is_recording /\ last_motion_time = 0

\* C19: when handle_motion has ended for a clip whose recording or conversion
\* failed, the clip's raw file is not on disk.
C19_FailedClipRawDiscarded ==
    \A i \in Threads :
        (clips[i].pc = "done" /\ clips[i].mp4_path = NoPath)
            => ~Exists(clips[i].video_path)

\* C20: a clip is at or past the call of upload_video only when its recording
\* was stopped and ffmpeg returned 0 for it.
C20_PipelineOrder ==
    \A i \in Threads :
        (clips[i].pc \in {"upload", "deleting"} \/ clips[i].posts > 0
            \/ clips[i].result # None)
            => /\ clips[i].converter = "ok"
               /\ clips[i].wake = 0
               /\ clips[i].mp4_path = Mp4Of(clips[i].video_path)

\* C20 witness: the conversion of the first clip failed and its thread ended
\* without an upload; the second clip was converted and uploaded.
C20_Witness ==
    /\ Len(clips) = 2
    /\ clips[1].converter \in {"failed", "raised"} /\ clips[1].pc = "done"
    /\ clips[1].posts = 0 /\ clips[1].result = None
    /\ clips[2].converter = "ok" /\ clips[2].posts = 1

\* a size of the worker pool: any limit below the number of threads the loop
\* is let start
WorkerLimit == MaxClips - 1

\* C21: the threads running handle_motion at one time never exceed the fixed
\* size of a pool, and no thread is started while the pool is full.
C21_BoundedWorkers ==
    /\ [](Cardinality(InFlight) <= WorkerLimit)
    /\ [][Len(clips') > Len(clips) => Cardinality(InFlight) < WorkerLimit]_vars

\* the time of the trigger that started clip i (the second its name carries)
TriggerTime(i) == clips[i].video_path[1]

\* C23: two triggers are at least VIDEO_DURATION + COOLDOWN_PERIOD seconds
\* apart, and no thread is started earlier than that after the last trigger.
C23_TriggerSpacing ==
    /\ [](\A i \in Threads : \A j \in Threads :
            i < j => TriggerTime(j) - TriggerTime(i) >= VIDEO_DURATION + COOLDOWN_PERIOD)
    /\ [][Len(clips') > Len(clips)
            => /\ now - last_motion_time >= VIDEO_DURATION + COOLDOWN_PERIOD
               /\ last_motion_time' = now]_vars

\* C23 witness: VIDEO_DURATION seconds after a trigger an iteration captured a
\* frame that differs from the previous one by a detectable motion, and no
\* second thread was started.
C23_Witness ==
    /\ mainPc = "loop" /\ Len(clips) = 1
    /\ now - last_motion_time = VIDEO_DURATION
    /\ MotionDetected(prev_frame[1], gray[1])

\* the file the deletion of clip c is at
CurrentFile(c) == DeleteList(c)[c.file_idx]

\* C22: a step of upload_video's cleanup that finds its file already absent
\* prints no delete failure for it and, when that file is the converted one,
\* goes on to the clip's raw file.
C22_MissingFileIsSuccess ==
    [][\A i \in Threads :
          (clips[i].pc = "deleting" /\ ~Exists(CurrentFile(clips[i]))
              /\ clips'[i] # clips[i])
              => /\ clips'[i].delete_failed = clips[i].delete_failed
                 /\ clips[i].file_idx = 1
                       => (clips'[i].pc = "deleting" /\ clips'[i].file_idx = 2)]_vars

\* Lemma for C22: main.py's delete loop treats a missing file as C22 states.
MainPyMissingFileIsSuccess ==
    [][script = "main.py" =>
        \A i \in Threads :
          (clips[i].pc = "deleting" /\ ~Exists(CurrentFile(clips[i]))
              /\ clips'[i] # clips[i])
              => /\ clips'[i].delete_failed = clips[i].delete_failed
                 /\ clips[i].file_idx = 1
                       => (clips'[i].pc = "deleting" /\ clips'[i].file_idx = 2)]_vars

\* the payload holds four consecutive '+'
HasSeparator(d) ==
    \E i \in 1 .. Len(d) : i + 3 <= Len(d) /\ \A k \in 0 .. 3 : d[i + k] = "+"

\* C24: while write_value handles a payload without the separator no step
\* changes the connections, the result of a connection attempt or the
\* credentials file; for a payload with the separator the credentials file
\* changes only after connect_to_wifi returned True.
C24_WriteValueFrame ==
    [][/\ ~HasSeparator(data)
            => UNCHANGED <<connections, connect_result, credentials_file>>
       /\ credentials_file' # credentials_file
            => (HasSeparator(data) /\ connect_result = "ok")]_vars

\* C24 witness: write_value has returned for a payload that has three '+', a
\* blank and one more '+', with both connections and the earlier file in place.
C24_Witness ==
    /\ wpc = "returned"
    /\ data = <<"+", "+", "+", " ", "+">>
    /\ connections = ConnNames
    /\ credentials_file = OldCredentials

\* Lemma for C24: after a successful save the file holds the two parts of the
\* payload on either side of the first separator.
SavedCredentialsMatchPayload ==
    (wpc = "returned" /\ connect_result = "ok" /\ credentials_file.complete
        /\ credentials_file # OldCredentials)
        => /\ credentials_file.ssid = ssid
           /\ credentials_file.password = password
           /\ Strip(data) = ssid \o Separator \o password

====
